---- MODULE Spec2Model ----
(***************************************************************************)
(* Window lifecycle systems of crates/bevy_window/src/system.rs:           *)
(* fixup_window_surface, close_when_requested, close_on_esc,               *)
(* exit_on_all_closed and exit_on_primary_closed, run once per tick over   *)
(* a shared entity store with deferred commands.                           *)
(***************************************************************************)
EXTENDS Integers, Sequences, FiniteSets

\* ------------------------------------------------------------------ bounds
NumEntities == 2     \* entity handles that can ever be spawned
MaxEvents == 2       \* WindowCloseRequested events sent within one tick

Entity == 1..NumEntities

VARIABLES
    pc,               \* the system that runs next in the current tick: fixup,
                      \* close, esc, exit_all, exit_primary, then the tick ends
    world,            \* live entities
    spawned,          \* entities ever spawned (handles are never reused)
    Window,           \* entities carrying a Window component
    PrimaryWindow,    \* entities carrying the PrimaryWindow marker
    SurfaceToken,     \* entities carrying a SurfaceToken component
    focused,          \* windows whose Window.focused is true
    safe,             \* tokens whose is_safe_to_close_window() is true
    pressed,          \* Input<KeyCode>: Escape is held down
    just_pressed,     \* Input<KeyCode>: Escape went down during this tick
    closed,           \* WindowCloseRequested events of this tick, in order
    commands,         \* commands queued during this tick, in order
    applied,          \* how many of `commands` have been applied to the world
    waiting_to_close, \* Local<HashSet<Entity>>: entries per entity
    app_exit_events,  \* AppExit events sent this tick, tagged by sender
    \* history of the run, read only by the properties
    reqSeen,          \* a close request was read for it while it had a token
    safeSeen,         \* its token has reported safe on this or an earlier tick
    mono,             \* the token never reported not safe after reporting safe
    despAt,           \* when and from where close_when_requested despawned it
    cwrDesp,          \* despawn commands close_when_requested issued for it
    lastCheck,        \* result of its most recent is_safe_to_close_window()
    everPrimary,      \* entities that were spawned with the PrimaryWindow marker
    escHeld,          \* close_on_esc despawned a window when Escape went down,
                      \* and Escape has been held ever since
    owed,             \* windows whose latest close request was read while
                      \* they had no token
    condHeld          \* exit policies whose condition held when they ran:
                      \* .prev on the previous tick, .cur on this tick

worldVars == <<world, spawned, Window, PrimaryWindow, SurfaceToken, focused, safe>>
inputVars == <<pressed, just_pressed>>
histVars == <<reqSeen, safeSeen, mono, despAt, cwrDesp, lastCheck>>
vars == <<pc, worldVars, inputVars, closed, commands, applied,
          waiting_to_close, app_exit_events, histVars, everPrimary, escHeld,
          owed, condHeld>>

\* ----------------------------------------------------------------- helpers
Range(s) == {s[i] : i \in 1..Len(s)}

\* commands.entity(e).despawn() and commands.entity(e).insert(SurfaceToken)
DespawnCmd(sys, e) == [sys |-> sys, op |-> "despawn", ent |-> e]
InsertTokenCmd(sys, e) == [sys |-> sys, op |-> "insert", ent |-> e]

\* despawn commands issued for `e` from place `sys` among the commands `cmds`:
\* "close_event" is the event loop of close_when_requested, "close_retain"
\* its retain pass, "esc" is close_on_esc
Issued(cmds, sys, e) ==
    Cardinality({i \in 1..Len(cmds) : cmds[i] = DespawnCmd(sys, e)})

\* despawn commands close_when_requested issued for `e`
IssuedByClose(cmds, e) ==
    Issued(cmds, "close_event", e) + Issued(cmds, "close_retain", e)

\* ------------------------------------------------ deferred command buffer
\* The world as a record, so that commands can be folded over it.
TheWorld ==
    [world |-> world, Window |-> Window, PrimaryWindow |-> PrimaryWindow,
     SurfaceToken |-> SurfaceToken, focused |-> focused, safe |-> safe]

\* One command applied. Despawn removes the entity with all its components
\* (a second despawn of the same entity finds nothing to remove); insert adds
\* the component to a live entity.
ApplyCommand(w, c) ==
    IF c.op = "despawn"
    THEN [world |-> w.world \ {c.ent},
          Window |-> w.Window \ {c.ent},
          PrimaryWindow |-> w.PrimaryWindow \ {c.ent},
          SurfaceToken |-> w.SurfaceToken \ {c.ent},
          focused |-> w.focused \ {c.ent},
          safe |-> w.safe \ {c.ent}]
    ELSE IF c.ent \in w.world
         THEN [w EXCEPT !.SurfaceToken = @ \cup {c.ent}]
         ELSE w

RECURSIVE ApplyFrom(_, _, _)
ApplyFrom(w, cmds, i) ==
    IF i > Len(cmds) THEN w
    ELSE ApplyFrom(ApplyCommand(w, cmds[i]), cmds, i + 1)

\* The queued commands not yet applied take effect. An insert puts a newly
\* constructed SurfaceToken on the entity, in place of one it may hold; the
\* state a new token reports is the surface owner's: either value.
Flush ==
    LET w == ApplyFrom(TheWorld, commands, applied + 1)
        fresh == {e \in w.SurfaceToken :
                     \E i \in (applied + 1)..Len(commands) :
                         commands[i] = InsertTokenCmd("fixup", e)}
    IN  /\ world' = w.world
        /\ Window' = w.Window
        /\ PrimaryWindow' = w.PrimaryWindow
        /\ SurfaceToken' = w.SurfaceToken
        /\ focused' = w.focused
        /\ \E S \in SUBSET fresh : safe' = (w.safe \ fresh) \cup S
        /\ UNCHANGED spawned

\* --------------------------------------------------- close_when_requested
\* tokens.get(e) is Ok
TokensGet(e) == e \in SurfaceToken

\* token.is_safe_to_close_window()
IsSafeToCloseWindow(e) == e \in safe

\* Faulty variant of HashSetInsert: a second entry for a present entity.
HashSetInsertDup(set, e) == [set EXCEPT ![e] = @ + 1]

\* HashSet::insert: an entity already present is not added again
HashSetInsert(set, e) == IF set[e] > 0 THEN set ELSE [set EXCEPT ![e] = 1]

\* Faulty variant of ProcessEvent: despawns without asking the token.
ProcessEventNoSafetyCheck(st, e) ==
    IF TokensGet(e)
    THEN [st EXCEPT !.cmds = Append(@, DespawnCmd("close_event", e))]
    ELSE st

\* Faulty variant of ProcessEvent: defers an entity whose token is missing.
ProcessEventStashMissing(st, e) ==
    IF TokensGet(e)
    THEN IF IsSafeToCloseWindow(e)
         THEN [st EXCEPT !.cmds = Append(@, DespawnCmd("close_event", e)),
                         !.chk[e] = "safe"]
         ELSE [st EXCEPT !.waiting = HashSetInsert(@, e),
                         !.chk[e] = "unsafe"]
    ELSE [st EXCEPT !.waiting = HashSetInsert(@, e)]

\* Body of the event loop for one event. st carries the local set, the
\* command queue and the result of each entity's latest safety check.
ProcessEvent(st, e) ==
    IF TokensGet(e)
    THEN IF IsSafeToCloseWindow(e)
         THEN [st EXCEPT !.cmds = Append(@, DespawnCmd("close_event", e)),
                         !.chk[e] = "safe"]
         ELSE [st EXCEPT !.waiting = HashSetInsert(@, e),
                         !.chk[e] = "unsafe"]
    ELSE st

RECURSIVE ReadEvents(_, _)
ReadEvents(st, evs) ==
    IF evs = <<>> THEN st
    ELSE ReadEvents(ProcessEvent(st, Head(evs)), Tail(evs))

\* Faulty variant of RetainClosure: always returns true, despawns nothing.
RetainClosureNeverReleases(st, e) ==
    IF TokensGet(e)
    THEN [st EXCEPT !.chk[e] =
              IF IsSafeToCloseWindow(e) THEN "safe" ELSE "unsafe"]
    ELSE st

\* Faulty variant of RetainClosure: returns false whenever the token is found.
RetainClosureDropsFound(st, e) ==
    IF TokensGet(e)
    THEN IF IsSafeToCloseWindow(e)
         THEN [st EXCEPT !.cmds = Append(@, DespawnCmd("close_retain", e)),
                         !.waiting[e] = 0,
                         !.chk[e] = "safe"]
         ELSE [st EXCEPT !.waiting[e] = 0, !.chk[e] = "unsafe"]
    ELSE st

\* Faulty variant of RetainClosure: an entry whose token is missing is purged.
RetainClosurePurgesMissing(st, e) ==
    IF TokensGet(e)
    THEN IF IsSafeToCloseWindow(e)
         THEN [st EXCEPT !.cmds = Append(@, DespawnCmd("close_retain", e)),
                         !.waiting[e] = 0,
                         !.chk[e] = "safe"]
         ELSE [st EXCEPT !.chk[e] = "unsafe"]
    ELSE [st EXCEPT !.waiting[e] = 0]

\* Faulty variant of RetainClosure: despawns a safe entry but returns true.
RetainClosureKeepsSafe(st, e) ==
    IF TokensGet(e)
    THEN IF IsSafeToCloseWindow(e)
         THEN [st EXCEPT !.cmds = Append(@, DespawnCmd("close_retain", e)),
                         !.chk[e] = "safe"]
         ELSE [st EXCEPT !.chk[e] = "unsafe"]
    ELSE st

\* Faulty variant of RetainClosure: gives up waiting and despawns an entry
\* whose token still reports not safe.
RetainClosureDespawnsUnsafe(st, e) ==
    IF TokensGet(e)
    THEN [st EXCEPT !.cmds = Append(@, DespawnCmd("close_retain", e)),
                    !.waiting[e] = 0,
                    !.chk[e] = IF IsSafeToCloseWindow(e) THEN "safe" ELSE "unsafe"]
    ELSE st

\* The retain closure for one member of the set: the entry is dropped only
\* when its token is found and reports safe.
RetainClosure(st, e) ==
    IF TokensGet(e)
    THEN IF IsSafeToCloseWindow(e)
         THEN [st EXCEPT !.cmds = Append(@, DespawnCmd("close_retain", e)),
                         !.waiting[e] = 0,
                         !.chk[e] = "safe"]
         ELSE [st EXCEPT !.chk[e] = "unsafe"]
    ELSE st

\* Faulty variant of Members: the pass visits every entity that has a token,
\* requested or not.
MembersAllTokens(waiting) == SurfaceToken

\* The entities HashSet::retain visits: the members of the set.
Members(waiting) == {e \in Entity : waiting[e] > 0}

\* The orders in which a pass can visit the entities S: every permutation of
\* S. HashSet::retain walks the hash table, whose layout depends on the
\* hasher's per-process seed; a Query yields its entities in storage order.
VisitOrders(S) ==
    {o \in [1..Cardinality(S) -> S] :
        \A i, j \in 1..Cardinality(S) : o[i] = o[j] => i = j}

\* HashSet::retain: the closure is called once per member, in the order
\* `order`.
RECURSIVE Retain(_, _)
Retain(st, order) ==
    IF Len(order) = 0 THEN st
    ELSE Retain(RetainClosure(st, Head(order)), Tail(order))

\* The possible outcomes of one invocation of close_when_requested on the
\* events evs, starting from the local set `waiting`: one per visiting order
\* of the retain pass.
CloseResult(waiting, evs) ==
    LET st == ReadEvents([waiting |-> waiting, cmds |-> commands,
                          chk |-> lastCheck], evs)
    IN  {Retain(st, o) : o \in VisitOrders(Members(st.waiting))}

\* Where a tick lies relative to the first tick on which both a request has
\* been read for e with its token present (tick j) and e's token has reported
\* safe (tick k): before it ("early"), on it, which is tick max(j, k), or
\* after it ("late"). On tick max(j, k) the request is either one read on an
\* earlier tick (j < k, "due_deferred") or one read on this tick (j >= k,
\* "due_immediate").
DespawnStage(e, read, nowSafe) ==
    IF reqSeen[e] /\ safeSeen[e] THEN "late"
    ELSE IF (reqSeen[e] \/ e \in read) /\ (safeSeen[e] \/ e \in nowSafe)
         THEN IF reqSeen[e] THEN "due_deferred" ELSE "due_immediate"
    ELSE "early"

\* Which part of close_when_requested issued e's despawns among cmds.
DespawnedBy(cmds, e) ==
    {by \in {"close_event", "close_retain"} : Issued(cmds, by, e) > 0}

close_when_requested ==
    /\ pc = "close"
    /\ \E r \in CloseResult(waiting_to_close, closed) :
       LET read == Range(closed) \cap SurfaceToken
           nowSafe == SurfaceToken \cap safe
       IN  /\ waiting_to_close' = r.waiting
           /\ commands' = r.cmds
           /\ lastCheck' = r.chk
           /\ reqSeen' = [e \in Entity |-> reqSeen[e] \/ e \in read]
           /\ safeSeen' = [e \in Entity |-> safeSeen[e] \/ e \in nowSafe]
           /\ mono' = [e \in Entity |->
                  mono[e] /\ ~(safeSeen[e] /\ e \in SurfaceToken \ safe)]
           /\ despAt' = [e \in Entity |->
                  IF IssuedByClose(r.cmds, e) > 0
                  THEN despAt[e] \cup {<<DespawnStage(e, read, nowSafe),
                                           DespawnedBy(r.cmds, e)>>}
                  ELSE despAt[e]]
           /\ cwrDesp' = [e \in Entity |-> cwrDesp[e] + IssuedByClose(r.cmds, e)]
           /\ owed' = owed \cup (Range(closed) \cap (Window \ SurfaceToken))
    /\ pc' = "esc"
    /\ UNCHANGED <<worldVars, inputVars, closed, applied, app_exit_events,
                   everPrimary, escHeld, condHeld>>

\* ----------------------------------------------------- fixup_window_surface
\* Faulty variant of MissingSurfaceToken: the Without<SurfaceToken> filter
\* is dropped.
MissingSurfaceTokenAnyWindow == Window

\* Query<Entity, (With<Window>, Without<SurfaceToken>)>
MissingSurfaceToken == Window \ SurfaceToken

\* for_each over the query: one insert command per entity it yields, in the
\* order `order` in which it yields them.
RECURSIVE InsertTokens(_, _)
InsertTokens(cmds, order) ==
    IF Len(order) = 0 THEN cmds
    ELSE InsertTokens(Append(cmds, InsertTokenCmd("fixup", Head(order))),
                      Tail(order))

\* The query yields its entities in storage order, which the code does not
\* control: every order is possible.
fixup_window_surface ==
    /\ pc = "fixup"
    /\ \E order \in VisitOrders(MissingSurfaceToken) :
           commands' = InsertTokens(commands, order)
    /\ pc' = "close"
    /\ UNCHANGED <<worldVars, inputVars, closed, applied,
                   waiting_to_close, app_exit_events, histVars,
                   owed, condHeld, everPrimary, escHeld>>

\* -------------------------------------------------------------- close_on_esc
\* Faulty variant of JustPressed: level-triggered, input.pressed(..)
JustPressedHeld == pressed

\* input.just_pressed(KeyCode::Escape)
JustPressed == just_pressed

\* Faulty variant of FocusedWindows: windows whose token is not safe are
\* skipped too.
FocusedWindowsSafeOnly == {e \in Window : e \in focused /\ e \in safe}

\* the windows the loop does not skip
FocusedWindows == {e \in Window : e \in focused}

\* The loop over focused_windows.iter(), which yields the windows in the
\* order `order`: an unfocused window is skipped, a focused one is despawned
\* if Escape was just pressed.
RECURSIVE EscLoop(_, _)
EscLoop(cmds, order) ==
    IF Len(order) = 0 THEN cmds
    ELSE EscLoop(IF Head(order) \in FocusedWindows /\ JustPressed
                 THEN Append(cmds, DespawnCmd("esc", Head(order)))
                 ELSE cmds, Tail(order))

\* Query<(Entity, &Window)> yields every window, in storage order, which the
\* code does not control: every order is possible.
close_on_esc ==
    /\ pc = "esc"
    /\ \E order \in VisitOrders(Window) :
           commands' = EscLoop(commands, order)
    /\ escHeld' = (escHeld \/ (pressed /\ Len(commands') > Len(commands)))
    /\ pc' = "exit_all"
    /\ UNCHANGED <<worldVars, inputVars, closed, applied,
                   waiting_to_close, app_exit_events, histVars,
                   owed, condHeld, everPrimary>>

\* ------------------------------------------------------------ exit policies
\* Faulty variant of AllClosed: the emptiness test is dropped.
AllClosedAlways == TRUE

\* Faulty variant of AllClosed: edge-triggered, silent once the condition
\* held on the previous tick.
AllClosedNewly == Window = {} /\ "all" \notin condHeld.prev

\* Faulty variant of AllClosed: the query has no Window filter, Query<Entity>.
AllClosedNoEntity == world = {}

\* Query<&Window>.is_empty()
AllClosed == Window = {}

\* Faulty variant of PrimaryClosed: the With<PrimaryWindow> filter is dropped.
PrimaryClosedAsAllClosed == Window = {}

\* Query<(), (With<Window>, With<PrimaryWindow>)>.is_empty()
PrimaryClosed == Window \cap PrimaryWindow = {}

\* The schedule runs the exit policies after the commands queued by the
\* systems before them have been applied: they observe the post-despawn
\* entity set of the tick.
CommandsApplied == applied = Len(commands)

exit_on_all_closed ==
    /\ pc = "exit_all"
    /\ CommandsApplied
    /\ app_exit_events' =
           IF AllClosed THEN Append(app_exit_events, "all") ELSE app_exit_events
    /\ condHeld' = IF Window = {}
                   THEN [condHeld EXCEPT !.cur = @ \cup {"all"}]
                   ELSE condHeld
    /\ pc' = "exit_primary"
    /\ UNCHANGED <<worldVars, inputVars, closed, commands, applied,
                   waiting_to_close, histVars,
                   owed, everPrimary, escHeld>>

exit_on_primary_closed ==
    /\ pc = "exit_primary"
    /\ CommandsApplied
    /\ app_exit_events' =
           IF PrimaryClosed THEN Append(app_exit_events, "primary")
           ELSE app_exit_events
    /\ condHeld' = IF Window \cap PrimaryWindow = {}
                   THEN [condHeld EXCEPT !.cur = @ \cup {"primary"}]
                   ELSE condHeld
    /\ pc' = "end"
    /\ UNCHANGED <<worldVars, inputVars, closed, commands, applied,
                   waiting_to_close, histVars,
                   owed, everPrimary, escHeld>>

\* --------------------------------------------------------------- scheduling
\* A command synchronisation point between two systems of the tick. Between
\* fixup_window_surface, close_when_requested and close_on_esc it may or may
\* not be there; the one before the exit policies always is.
ApplyCommands ==
    /\ pc \in {"close", "esc", "exit_all"}
    /\ applied < Len(commands)
    /\ Flush
    /\ applied' = Len(commands)
    /\ UNCHANGED <<pc, inputVars, closed, commands, waiting_to_close,
                   app_exit_events, histVars,
                   owed, condHeld, everPrimary, escHeld>>

\* End of the tick: every queued command has taken effect before the next
\* tick starts, the event queues and the key's edge state are cleared.
EndTick ==
    /\ pc = "end"
    /\ Flush
    /\ commands' = <<>>
    /\ applied' = 0
    /\ closed' = <<>>
    /\ app_exit_events' = <<>>
    /\ just_pressed' = FALSE
    /\ owed' = owed \cap world'
    /\ condHeld' = [prev |-> condHeld.cur, cur |-> {}]
    /\ pc' = "fixup"
    /\ UNCHANGED <<pressed, waiting_to_close, histVars, everPrimary, escHeld>>

\* -------------------------------------------------------------- environment
\* What happens outside these systems, between two ticks.
Spawn(isWindow, isPrimary, isFocused) ==
    /\ pc = "fixup"
    /\ Cardinality(spawned) < NumEntities
    /\ LET e == Cardinality(spawned) + 1
       IN  /\ spawned' = spawned \cup {e}
           /\ world' = world \cup {e}
           /\ Window' = IF isWindow THEN Window \cup {e} ELSE Window
           /\ PrimaryWindow' =
                  IF isWindow /\ isPrimary THEN PrimaryWindow \cup {e}
                  ELSE PrimaryWindow
           /\ focused' = IF isWindow /\ isFocused THEN focused \cup {e} ELSE focused
           /\ everPrimary' =
                  IF isWindow /\ isPrimary THEN everPrimary \cup {e} ELSE everPrimary
    /\ UNCHANGED <<pc, SurfaceToken, safe, inputVars, closed, commands,
                   applied, waiting_to_close, app_exit_events, histVars,
                   owed, condHeld, escHeld>>

SendCloseRequested(e) ==
    /\ pc = "fixup"
    /\ Len(closed) < MaxEvents
    /\ closed' = Append(closed, e)
    /\ owed' = owed \ {e}
    /\ UNCHANGED <<pc, worldVars, inputVars, commands, applied,
                   waiting_to_close, app_exit_events, histVars,
                   condHeld, everPrimary, escHeld>>

\* The surface owner takes or releases the window's surface.
SurfaceChange(e) ==
    /\ pc = "fixup"
    /\ e \in SurfaceToken
    /\ safe' = IF e \in safe THEN safe \ {e} ELSE safe \cup {e}
    /\ UNCHANGED <<pc, world, spawned, Window, PrimaryWindow, SurfaceToken,
                   focused, inputVars, closed, commands, applied,
                   waiting_to_close, app_exit_events, histVars,
                   owed, condHeld, everPrimary, escHeld>>

FocusChange(e) ==
    /\ pc = "fixup"
    /\ e \in Window
    /\ focused' = IF e \in focused THEN focused \ {e} ELSE focused \cup {e}
    /\ UNCHANGED <<pc, world, spawned, Window, PrimaryWindow, SurfaceToken,
                   safe, inputVars, closed, commands, applied,
                   waiting_to_close, app_exit_events, histVars,
                   owed, condHeld, everPrimary, escHeld>>

PressEscape ==
    /\ pc = "fixup"
    /\ ~pressed
    /\ pressed' = TRUE
    /\ just_pressed' = TRUE
    /\ UNCHANGED <<pc, worldVars, closed, commands, applied,
                   waiting_to_close, app_exit_events, histVars,
                   owed, condHeld, everPrimary, escHeld>>

ReleaseEscape ==
    /\ pc = "fixup"
    /\ pressed
    /\ pressed' = FALSE
    /\ escHeld' = FALSE
    /\ UNCHANGED <<pc, worldVars, just_pressed, closed, commands, applied,
                   waiting_to_close, app_exit_events, histVars,
                   owed, condHeld, everPrimary>>

\* -------------------------------------------------------------------- spec
Init ==
    /\ pc = "fixup"
    /\ world = {}
    /\ spawned = {}
    /\ Window = {}
    /\ PrimaryWindow = {}
    /\ SurfaceToken = {}
    /\ focused = {}
    /\ safe = {}
    /\ pressed = FALSE
    /\ just_pressed = FALSE
    /\ closed = <<>>
    /\ commands = <<>>
    /\ applied = 0
    /\ waiting_to_close = [e \in Entity |-> 0]
    /\ app_exit_events = <<>>
    /\ reqSeen = [e \in Entity |-> FALSE]
    /\ safeSeen = [e \in Entity |-> FALSE]
    /\ mono = [e \in Entity |-> TRUE]
    /\ despAt = [e \in Entity |-> {}]
    /\ cwrDesp = [e \in Entity |-> 0]
    /\ lastCheck = [e \in Entity |-> "none"]
    /\ everPrimary = {}
    /\ escHeld = FALSE
    /\ owed = {}
    /\ condHeld = [prev |-> {}, cur |-> {}]

Next ==
    \/ \E w, p, f \in BOOLEAN : Spawn(w, p, f)
    \/ \E e \in Entity : SendCloseRequested(e)
    \/ \E e \in Entity : SurfaceChange(e)
    \/ \E e \in Entity : FocusChange(e)
    \/ PressEscape
    \/ ReleaseEscape
    \/ fixup_window_surface
    \/ close_when_requested
    \/ close_on_esc
    \/ exit_on_all_closed
    \/ exit_on_primary_closed
    \/ ApplyCommands
    \/ EndTick

Spec == Init /\ [][Next]_vars

\* ------------------------------------------------------------- properties
\* close_when_requested, close_on_esc, exit_on_all_closed have run this tick
CloseRan == pc \in {"esc", "exit_all", "exit_primary", "end"}
EscRan == pc \in {"exit_all", "exit_primary", "end"}

\* the step taken by each system
CloseStep == pc = "close" /\ pc' = "esc"
ExitAllStep == pc = "exit_all" /\ pc' = "exit_primary"
ExitPrimaryStep == pc = "exit_primary" /\ pc' = "end"

\* AppExit events of this tick sent by `sender`
Sent(events, sender) ==
    Cardinality({i \in 1..Len(events) : events[i] = sender})

\* C1: over the whole run close_when_requested issues at most one despawn
\* command for each entity.
C1_AtMostOneDespawn == \A e \in Entity : cwrDesp[e] <= 1

\* C2: for a window whose token is not safe before tick k and safe from tick k
\* on, and for which a close request is read with the token present on tick j,
\* close_when_requested issues its despawn on tick max(j, k) and on no other
\* tick, from the event loop when j >= k and from the retain pass when j < k,
\* and the window is not in waiting_to_close from the end of that pass.
C2_EventualRelease ==
    \A e \in Entity :
        /\ ~(reqSeen[e] /\ safeSeen[e]) => despAt[e] = {}
        /\ (mono[e] /\ reqSeen[e] /\ safeSeen[e]) =>
               /\ \E at \in despAt[e] : despAt[e] = {at}
               /\ \A at \in despAt[e] :
                      \/ at[1] = "due_immediate" /\ at[2] = {"close_event"}
                      \/ at[1] = "due_deferred" /\ "close_retain" \in at[2]
               /\ waiting_to_close[e] = 0

\* In one tick the retry pass released a window deferred on an earlier tick
\* and the event loop released another whose token was already safe.
C2_Witness ==
    /\ pc = "esc"
    /\ \E e1, e2 \in Entity :
           /\ mono[e1] /\ mono[e2]
           /\ closed = <<e2>>
           /\ e1 # e2
           /\ IssuedByClose(commands, e1) = 1
           /\ IssuedByClose(commands, e2) = 1
           /\ despAt[e1] = {<<"due_deferred", {"close_retain"}>>}
           /\ despAt[e2] = {<<"due_immediate", {"close_event"}>>}
           /\ waiting_to_close[e1] = 0

\* C3 as stated: a window whose token has never reported safe is never the
\* target of a despawn command, whoever issues it.
C3_NeverDespawned ==
    \A e \in SurfaceToken :
        (~safeSeen[e] /\ e \notin safe) =>
            \A i \in 1..Len(commands) :
                commands[i].op = "despawn" => commands[i].ent # e

\* C3 amended: a window whose token has never reported safe is never
\* despawned by close_when_requested.
C3_NeverDespawnedByCloseRequest ==
    \A e \in Entity : ~safeSeen[e] => cwrDesp[e] = 0

\* A close was requested for a window whose token has never been safe; the
\* window is deferred and alive at the end of the tick.
C3_Witness ==
    /\ pc = "end"
    /\ \E e \in SurfaceToken :
           /\ ~safeSeen[e]
           /\ e \in Range(closed)
           /\ waiting_to_close[e] > 0
           /\ e \in world

\* C4: an entity is in waiting_to_close iff a close request was read for it
\* and its most recent safety check reported not safe.
C4_PendingInvariant ==
    \A e \in Entity :
        /\ waiting_to_close[e] > 0 <=> lastCheck[e] = "unsafe"
        /\ waiting_to_close[e] > 0 => reqSeen[e]

\* One entity is deferred while another, requested too, was last found safe.
C4_Witness ==
    /\ pc = "end"
    /\ \E e1, e2 \in Entity :
           /\ waiting_to_close[e1] > 0
           /\ lastCheck[e1] = "unsafe"
           /\ reqSeen[e2]
           /\ lastCheck[e2] = "safe"
           /\ waiting_to_close[e2] = 0

\* C5: a retry pass that finds a member of waiting_to_close gone from the
\* entity store removes it from waiting_to_close.
C5_NoLeakedPending ==
    [][CloseStep =>
          \A e \in Entity :
              (waiting_to_close[e] > 0 /\ e \notin world) =>
                  waiting_to_close'[e] = 0]_vars

\* The events evs without the requests that repeat an earlier request (of
\* this tick, or one that already deferred the window) against a window
\* whose token is not safe.
RECURSIVE SingleRequests(_, _)
SingleRequests(evs, seen) ==
    IF evs = <<>> THEN <<>>
    ELSE LET e == Head(evs)
         IN  IF e \in seen /\ TokensGet(e) /\ ~IsSafeToCloseWindow(e)
             THEN SingleRequests(Tail(evs), seen)
             ELSE <<e>> \o SingleRequests(Tail(evs), seen \cup {e})

\* C6: after any number of close requests against a window whose token is
\* not safe, waiting_to_close holds exactly one entry for it, and the set is
\* the one a single request leaves.
C6_IdempotentInsert ==
    [][CloseStep =>
          /\ \A e \in Range(closed) :
                 (TokensGet(e) /\ ~IsSafeToCloseWindow(e)) =>
                     waiting_to_close'[e] = 1
          /\ \A r \in CloseResult(waiting_to_close,
                                   SingleRequests(closed,
                                       {e \in Entity : waiting_to_close[e] > 0})) :
                 waiting_to_close' = r.waiting]_vars

\* A window deferred on an earlier tick was requested twice more in one tick.
C6_Witness ==
    /\ pc = "esc"
    /\ \E e \in SurfaceToken \ safe :
           /\ closed = <<e, e>>
           /\ lastCheck[e] = "unsafe"
           /\ waiting_to_close[e] = 1
           /\ Len(commands) = 0

\* C7: a close request read while its target has no token issues no despawn
\* for the target and leaves the target's membership of waiting_to_close as
\* it was.
C7_MissingTokenSkip ==
    [][CloseStep =>
          \A e \in Range(closed) :
              ~TokensGet(e) =>
                  /\ waiting_to_close'[e] = waiting_to_close[e]
                  /\ IssuedByClose(commands', e) = 0]_vars

\* In one tick requests were read for a window not yet provisioned and for
\* an entity that no longer exists.
C7_Witness ==
    /\ pc = "esc"
    /\ \E e1, e2 \in Range(closed) :
           /\ e1 \in Window \ SurfaceToken
           /\ waiting_to_close[e1] = 0
           /\ e2 \in spawned \ world
           /\ \A e \in {e1, e2} : IssuedByClose(commands, e) = 0

\* C8: exit_on_all_closed sends exactly one AppExit when no entity carries
\* Window as it runs, and none otherwise.
C8_AllClosedExit ==
    [][ExitAllStep =>
          /\ Sent(app_exit_events, "all") = 0
          /\ Sent(app_exit_events', "all") = IF Window = {} THEN 1 ELSE 0
          /\ Sent(app_exit_events', "primary") = Sent(app_exit_events, "primary")]_vars

\* Every window that was opened is gone and the policy has sent its signal.
C8_Witness ==
    /\ pc = "exit_primary"
    /\ spawned # {}
    /\ cwrDesp # [e \in Entity |-> 0]
    /\ Window = {}
    /\ Sent(app_exit_events, "all") = 1

\* C9: exit_on_primary_closed sends an AppExit exactly when no entity carries
\* both Window and PrimaryWindow; when a window without the marker remains,
\* it is the only AppExit of the tick.
C9_PrimaryClosedExit ==
    [][ExitPrimaryStep =>
          /\ Sent(app_exit_events, "primary") = 0
          /\ Sent(app_exit_events', "primary") =
                 IF Window \cap PrimaryWindow = {} THEN 1 ELSE 0
          /\ (Window # {} /\ Window \cap PrimaryWindow = {}) =>
                 app_exit_events' = <<"primary">>]_vars

\* Of two windows the primary one was despawned and the other remains.
C9_Witness ==
    /\ pc = "end"
    /\ \E e1, e2 \in Entity :
           /\ e1 \in everPrimary \ world
           /\ e2 \in Window \ everPrimary
    /\ app_exit_events = <<"primary">>

\* C10: close_on_esc despawns each focused window once on the tick Escape
\* is just pressed, and nothing on a tick where it is not just pressed, held
\* or not.
C10_EdgeTriggered ==
    EscRan =>
        \A e \in Entity :
            /\ Issued(commands, "esc", e) <= 1
            /\ ~just_pressed => Issued(commands, "esc", e) = 0
            /\ (just_pressed /\ e \in FocusedWindows) => Issued(commands, "esc", e) = 1

\* Escape is still held on a tick after the one on which it closed a window,
\* a focused window exists, and close_on_esc has run without despawning it.
C10_Witness ==
    /\ pc = "exit_all"
    /\ escHeld
    /\ pressed
    /\ ~just_pressed
    /\ FocusedWindows # {}
    /\ \A e \in Entity : Issued(commands, "esc", e) = 0

\* insert commands of this tick for e, and whether one is still queued
Inserts(e) ==
    Cardinality({i \in 1..Len(commands) : commands[i] = InsertTokenCmd("fixup", e)})
InsertQueued(e) ==
    \E i \in (applied + 1)..Len(commands) : commands[i] = InsertTokenCmd("fixup", e)

\* C11: once fixup_window_surface has run in a tick, every Window entity
\* either holds a token or has exactly one insert queued, never both, so no
\* token a window holds is replaced; no insert is issued for an entity
\* that is not a window.
C11_TokenProvisioning ==
    pc # "fixup" =>
        \A e \in Entity :
            /\ Inserts(e) <= 1
            /\ e \in Window => (e \in SurfaceToken <=> ~InsertQueued(e))
            /\ InsertQueued(e) => e \in Window
            /\ e \in world \ Window => Inserts(e) = 0
            /\ e \notin spawned => Inserts(e) = 0

\* fixup_window_surface has run over a window provisioned on an earlier tick
\* and a new window.
C11_Witness ==
    /\ pc = "close"
    /\ applied = 0
    /\ \E e1 \in Window \cap SurfaceToken : Inserts(e1) = 0
    /\ \E e2 \in Window \ SurfaceToken : InsertQueued(e2)

EscStep == pc = "esc" /\ pc' = "exit_all"

\* C12: the retain pass removes an entry exactly when the entry's token is
\* found and reports safe, and then issues its despawn in the same pass; an
\* entry whose token is missing is kept, so the entry of an entity that is
\* gone from the world stays in waiting_to_close through every later step.
C12_RetainSplit ==
    [][/\ CloseStep =>
              \A e \in Entity :
                  waiting_to_close[e] > 0 =>
                      /\ waiting_to_close'[e] = 0 <=>
                             (TokensGet(e) /\ IsSafeToCloseWindow(e))
                      /\ waiting_to_close'[e] = 0 =>
                             Issued(commands', "close_retain", e) = 1
                      /\ ~TokensGet(e) => waiting_to_close'[e] = waiting_to_close[e]
       /\ \A e \in Entity :
              (waiting_to_close[e] > 0 /\ e \in spawned \ world) =>
                  waiting_to_close'[e] > 0]_vars

\* A retry pass has run over the entry of an entity that is gone, and kept
\* it, while it released the entry of a window whose token is safe.
C12_Witness ==
    /\ pc = "esc"
    /\ closed = <<>>
    /\ \E e1, e2 \in Entity :
           /\ e1 \in spawned \ world
           /\ waiting_to_close[e1] = 1
           /\ Issued(commands, "close_retain", e2) = 1
           /\ waiting_to_close[e2] = 0

\* C15: whenever close_when_requested finds a token safe it issues a
\* despawn, and after it has run no member of waiting_to_close has a token
\* that reports safe.
C15_SafeNeverPending ==
    /\ \A e \in Entity : lastCheck[e] = "safe" => cwrDesp[e] >= 1
    /\ CloseRan =>
           \A e \in Entity :
               waiting_to_close[e] > 0 => ~(e \in SurfaceToken /\ e \in safe)

\* A window deferred on an earlier tick was requested again on the tick its
\* token reports safe: both parts despawn it and it is no longer deferred.
C15_Witness ==
    /\ pc = "esc"
    /\ \E e \in SurfaceToken \cap safe :
           /\ e \in Range(closed)
           /\ despAt[e] = {<<"due_deferred", {"close_event", "close_retain"}>>}
           /\ waiting_to_close[e] = 0

\* C17: a member of waiting_to_close, deferred on an earlier tick or by this
\* tick's event loop, whose token is present and reports not safe is a member
\* after close_when_requested has run, and no despawn was issued for it by
\* that run.
C17_RetryWithoutTimeout ==
    [][CloseStep =>
          \A e \in Entity :
              /\ waiting_to_close[e] > 0 \/ e \in Range(closed)
              /\ TokensGet(e)
              /\ ~IsSafeToCloseWindow(e)
              => /\ waiting_to_close'[e] = 1
                 /\ IssuedByClose(commands', e) = 0]_vars

\* A window deferred on an earlier tick is still deferred after a pass on a
\* later tick that read no request for it.
C17_Witness ==
    /\ pc = "esc"
    /\ \E e \in SurfaceToken \ safe :
           /\ e \notin Range(closed)
           /\ waiting_to_close[e] = 1
           /\ Inserts(e) = 0
           /\ IssuedByClose(commands, e) = 0

\* C18: close_on_esc issues one despawn for each Window entity with focused
\* set when Escape is just pressed, with or without a token and whatever the
\* token reports, none for any other entity, none when Escape is not just
\* pressed, and nothing else; it leaves waiting_to_close alone.
C18_EscBypassesToken ==
    [][EscStep =>
          /\ \A e \in Entity :
                 Issued(commands', "esc", e) =
                     IF just_pressed /\ e \in Window /\ e \in focused THEN 1 ELSE 0
          /\ Len(commands') =
                 Len(commands) +
                     (IF just_pressed THEN Cardinality(Window \cap focused) ELSE 0)
          /\ waiting_to_close' = waiting_to_close]_vars

\* Escape was just pressed: a focused window that is deferred because its
\* token is not safe is despawned, an unfocused window is not.
C18_Witness ==
    /\ pc = "exit_all"
    /\ just_pressed
    /\ \E e1, e2 \in Window :
           /\ e1 \in focused
           /\ e1 \in SurfaceToken \ safe
           /\ waiting_to_close[e1] = 1
           /\ Issued(commands, "esc", e1) = 1
           /\ e2 \notin focused
           /\ Issued(commands, "esc", e2) = 0

\* C19: close_when_requested despawns an entity or holds it in
\* waiting_to_close only if a close request naming it has been read.
C19_NoUnrequestedClose ==
    \A e \in Entity :
        (cwrDesp[e] > 0 \/ waiting_to_close[e] > 0) => reqSeen[e]

\* A window whose token reports safe was passed over by close_when_requested
\* because no request was ever read for it.
C19_Witness ==
    /\ pc = "end"
    /\ \E e \in SurfaceToken \cap safe :
           /\ safeSeen[e]
           /\ ~reqSeen[e]
           /\ e \notin Range(closed)
           /\ e \in Window
           /\ IssuedByClose(commands, e) = 0

\* ---------------------------------------------------------------------- C13
\* C13 as claimed: a window whose latest close request was read while it had
\* no token, and that has its token when close_when_requested runs on a later
\* tick with no new request for it, is placed in waiting_to_close or
\* despawned by that run.
C13_RetriedOnceProvisioned ==
    [][CloseStep =>
          \A e \in owed :
              (TokensGet(e) /\ e \notin Range(closed)) =>
                  \/ waiting_to_close'[e] > 0
                  \/ IssuedByClose(commands', e) > 0]_vars

\* ---------------------------------------------------------------------- C14
\* C14 as claimed: a policy whose condition held when it ran on the previous
\* tick sends no AppExit on this tick.
C14_OnlyWhenNewlyHolds ==
    /\ (pc \in {"exit_primary", "end"} /\ "all" \in condHeld.prev) =>
           Sent(app_exit_events, "all") = 0
    /\ (pc = "end" /\ "primary" \in condHeld.prev) =>
           Sent(app_exit_events, "primary") = 0

\* C14 amended: a policy whose condition held when it ran on the previous
\* tick sends one AppExit on this tick if the condition holds again when it
\* runs, and none if it does not.
C14_EmitsWhileConditionHolds ==
    /\ (pc \in {"exit_primary", "end"} /\ "all" \in condHeld.prev) =>
           Sent(app_exit_events, "all") =
               IF "all" \in condHeld.cur THEN 1 ELSE 0
    /\ (pc = "end" /\ "primary" \in condHeld.prev) =>
           Sent(app_exit_events, "primary") =
               IF "primary" \in condHeld.cur THEN 1 ELSE 0

\* Both conditions held on the previous tick, after a window had existed,
\* and both policies have sent again on this tick.
C14_Witness ==
    /\ pc = "end"
    /\ spawned # {}
    /\ condHeld.prev = {"all", "primary"}
    /\ app_exit_events = <<"all", "primary">>

\* ---------------------------------------------------------------------- C16
\* the entity store once every command queued so far on this tick is applied
PostDespawn == ApplyFrom(TheWorld, commands, applied + 1)

\* entities close_when_requested issued a despawn for on this tick
CloseDespawned == {e \in Entity : IssuedByClose(commands, e) > 0}

\* close_when_requested despawned the last window, resp. the primary window
LastWindowClosed == CloseDespawned # {} /\ PostDespawn.Window = {}
PrimaryWindowClosed ==
    /\ CloseDespawned \cap everPrimary # {}
    /\ PostDespawn.Window \cap PostDespawn.PrimaryWindow = {}

====
